---------------------------- MODULE Spec2Model ----------------------------
(***************************************************************************)
(* A model of the onewire crate: the bit-banged 1-Wire bus master          *)
(* (src/src/lib.rs) and the DS18B20 driver (src/src/ds18b20.rs).           *)
(*                                                                         *)
(* Every Rust function is an operator of the same name.  A function that   *)
(* touches the pin takes and returns the "world" w: the pin-operation      *)
(* trace, the error of the first failed operation (the ? operator), the    *)
(* last returned value and the bus the pin is wired to.  Loops are         *)
(* RECURSIVE operators over the loop index.                                *)
(***************************************************************************)
EXTENDS Integers, Sequences, FiniteSets, TLC

VARIABLES
    cursor,   \* the caller's DeviceSearch (the search cursor)
    wire,     \* the OneWire value: its parasite_mode flag
    bus,      \* the pin and what is wired to it: the line and the slaves
    call,     \* the last call made: its name and arguments
    ops,      \* the pin operations and delays of the last call, in order
    ret,      \* what the last call returned
    hist      \* the cursor's history: how it was created (seed), the number
              \* of search calls made on it (ncalls), the commands they
              \* used (cmds) and the devices they returned, in order (found)

vars == <<cursor, wire, bus, call, ops, ret, hist>>

---------------------------------------------------------------------------
(* Program constants *)

ADDRESS_BYTES == 8
ADDRESS_BITS == ADDRESS_BYTES * 8

SelectRom == 85
SearchNext == 240
SearchNextAlarmed == 236

ENSURE_POLLS == 125
PRESENCE_SAMPLES == 7

Byte == 0..255
ByteIdx == 0..(ADDRESS_BYTES - 1)

None == <<>>
Some(x) == <<x>>

Pow2(n) == 2 ^ n

---------------------------------------------------------------------------
(* The bus: an open-drain line with a pull-up, the master's pin on it and   *)
(* the slaves.  A slave times the master's low pulses: a pulse of at least  *)
(* RESET_MIN_US is a reset, answered with a presence pulse; a shorter pulse is  *)
(* a time slot, sampled SLOT_SAMPLE_US after its falling edge.  After       *)
(* the search command each address bit takes three slots: the slaves still  *)
(* taking part send the bit, then its complement, then read the master's    *)
(* choice and drop out when it is not theirs.  A slave sending 0 holds the  *)
(* line low for SLOT_HOLD_US after the master released it.                  *)
(* bus.tape, when not empty, scripts the level of the next reads (a         *)
(* short circuit, noise); bus.failIn = n > 0 makes the n-th pin operation   *)
(* from now fail with the driver's error.                                   *)

RESET_MIN_US == 480
SLOT_SAMPLE_US == 30
SLOT_HOLD_US == 12
PRESENCE_FROM_US == 15
PRESENCE_TO_US == 255
TIME_CAP_US == 1000

Min(a, b) == IF a < b THEN a ELSE b

RomBit(rom, i) == (rom[i \div 8] \div Pow2(i % 8)) % 2

NewBus(devices, alarmed) ==
    [ out |-> "high", lowFor |-> 0, relFor |-> TIME_CAP_US,
      pullFrom |-> 0, pullTo |-> 0,
      devices |-> devices, alarmed |-> alarmed, cand |-> {},
      phase |-> "idle", nbits |-> 0, cmd |-> 0, idx |-> 0, sub |-> 0,
      tape |-> <<>>, failIn |-> 0 ]

\* The slaves see the end of a low pulse of b.lowFor microseconds.
BusPulse(b) ==
    IF b.lowFor = 0 \/ b.devices = {} THEN b
    ELSE IF b.lowFor >= RESET_MIN_US
    THEN [b EXCEPT !.phase = "cmd", !.nbits = 0, !.cmd = 0, !.cand = {},
                   !.pullFrom = PRESENCE_FROM_US, !.pullTo = PRESENCE_TO_US]
    ELSE LET bit == IF b.lowFor < SLOT_SAMPLE_US THEN 1 ELSE 0 IN
         CASE b.phase = "cmd" ->
                LET c == b.cmd + bit * Pow2(b.nbits) IN
                IF b.nbits < 7
                THEN [b EXCEPT !.nbits = b.nbits + 1, !.cmd = c,
                               !.pullFrom = 0, !.pullTo = 0]
                ELSE IF c = SearchNext \/ c = SearchNextAlarmed
                THEN [b EXCEPT !.phase = "search", !.idx = 0, !.sub = 0,
                               !.nbits = 0, !.cmd = 0,
                               !.cand = IF c = SearchNext THEN b.devices
                                        ELSE b.alarmed,
                               !.pullFrom = 0, !.pullTo = 0]
                ELSE [b EXCEPT !.phase = "idle", !.nbits = 0, !.cmd = 0,
                               !.pullFrom = 0, !.pullTo = 0]
           [] b.phase = "search" /\ b.sub < 2 ->
                LET zero == \E d \in b.cand : RomBit(d, b.idx) = b.sub IN
                [b EXCEPT !.sub = b.sub + 1,
                          !.pullFrom = 0,
                          !.pullTo = IF zero THEN SLOT_HOLD_US ELSE 0]
           [] b.phase = "search" /\ b.sub = 2 ->
                LET left == {d \in b.cand : RomBit(d, b.idx) = bit} IN
                IF b.idx + 1 < ADDRESS_BITS
                THEN [b EXCEPT !.cand = left, !.idx = b.idx + 1, !.sub = 0,
                               !.pullFrom = 0, !.pullTo = 0]
                ELSE [b EXCEPT !.cand = {}, !.phase = "idle", !.idx = 0,
                               !.sub = 0, !.pullFrom = 0, !.pullTo = 0]
           [] OTHER -> [b EXCEPT !.pullFrom = 0, !.pullTo = 0]

BusSetLow(b) ==
    IF b.out = "low" THEN b
    ELSE [b EXCEPT !.out = "low", !.lowFor = 0]

BusSetHigh(b) ==
    IF b.out = "high" THEN b
    ELSE [BusPulse(b) EXCEPT !.out = "high", !.lowFor = 0, !.relFor = 0]

BusDelay(b, us) ==
    IF b.out = "low"
    THEN [b EXCEPT !.lowFor = Min(b.lowFor + us, TIME_CAP_US)]
    ELSE [b EXCEPT !.relFor = Min(b.relFor + us, TIME_CAP_US)]

\* The level a read of the pin sees.
\* A tape entry that scripts nothing: the read sees the line as master
\* and slaves drive it.
AS_DRIVEN == 2

BusIsHigh(b) ==
    IF b.tape # <<>> /\ Head(b.tape) # AS_DRIVEN THEN Head(b.tape) = 1
    ELSE /\ b.out = "high"
         /\ ~(b.pullFrom <= b.relFor /\ b.relFor < b.pullTo)

BusAfterRead(b) ==
    IF b.tape # <<>> THEN [b EXCEPT !.tape = Tail(b.tape)] ELSE b

\* One more pin operation has been asked of the driver.
BusCount(b) ==
    IF b.failIn > 0 THEN [b EXCEPT !.failIn = b.failIn - 1] ELSE b

---------------------------------------------------------------------------
(* The world of one call, and the OpenDrainOutput pin in it *)

World(b, parasite_mode) ==
    [ ops |-> <<>>, err |-> "", val |-> FALSE, bus |-> b,
      parasite_mode |-> parasite_mode ]

Ok(w) == w.err = ""

PinFail(w, name) ==
    [w EXCEPT !.ops = Append(w.ops, <<name, -1>>), !.err = "PortError",
              !.bus = BusCount(w.bus)]

pin_set_low(w) ==
    IF ~Ok(w) THEN w
    ELSE IF w.bus.failIn = 1 THEN PinFail(w, "set_low")
    ELSE [w EXCEPT !.ops = Append(w.ops, <<"set_low", 0>>),
                   !.bus = BusSetLow(BusCount(w.bus))]

pin_set_high(w) ==
    IF ~Ok(w) THEN w
    ELSE IF w.bus.failIn = 1 THEN PinFail(w, "set_high")
    ELSE [w EXCEPT !.ops = Append(w.ops, <<"set_high", 0>>),
                   !.bus = BusSetHigh(BusCount(w.bus))]

pin_is_high(w) ==
    IF ~Ok(w) THEN w
    ELSE IF w.bus.failIn = 1 THEN PinFail(w, "is_high")
    ELSE LET high == BusIsHigh(w.bus) IN
         [w EXCEPT !.ops = Append(w.ops, <<"is_high", IF high THEN 1 ELSE 0>>),
                   !.val = high,
                   !.bus = BusAfterRead(BusCount(w.bus))]

delay_us(w, us) ==
    IF ~Ok(w) THEN w
    ELSE [w EXCEPT !.ops = Append(w.ops, <<"delay_us", us>>),
                   !.bus = BusDelay(w.bus, us)]

---------------------------------------------------------------------------
(* OneWire: the pin helpers *)

set_input(w) == pin_set_high(w)

set_output(w) == w

write_low(w) == pin_set_low(w)

write_high(w) == pin_set_high(w)

\* read asking the driver once more when it failed.
read_again_on_error(w) ==
    LET w1 == pin_is_high(w)
    IN  IF Ok(w) /\ ~Ok(w1) THEN pin_is_high([w1 EXCEPT !.err = ""]) ELSE w1

read(w) == pin_is_high(w)

disable_parasite_mode(w) == write_low(set_input(w))

---------------------------------------------------------------------------
(* OneWire: bits and bytes *)

\* write_bit with the long recovery after either bit.
write_bit_long_recovery(w, high) ==
    LET w1 == set_output(write_low(w))
        w2 == delay_us(w1, IF high THEN 10 ELSE 65)
        w3 == write_high(w2)
    IN  delay_us(w3, 55)

write_bit(w, high) ==
    LET w1 == set_output(write_low(w))
        w2 == delay_us(w1, IF high THEN 10 ELSE 65)
        w3 == write_high(w2)
    IN  delay_us(w3, IF high THEN 55 ELSE 5)

\* let val = self.read(); delay.delay_us(61); val: the slot is padded out
\* whether or not the read failed.
read_bit_pad(w) ==
    IF ~Ok(w) THEN [w EXCEPT !.ops = Append(w.ops, <<"delay_us", 61>>)]
    ELSE delay_us(w, 61)

read_bit(w) ==
    LET w3 == set_input(delay_us(write_low(set_output(w)), 3))
    IN  IF ~Ok(w3) THEN w3
        ELSE read_bit_pad(read(delay_us(w3, 2)))

\* let bit0 = self.read_bit(delay)?; let bit1 = self.read_bit(delay)?;
read_bit_pair(w) ==
    LET w1 == read_bit(w)
    IN  [w |-> read_bit(w1), bit0 |-> w1.val]

RECURSIVE write_byte_bits(_, _, _)
write_byte_bits(w, byte, n) ==
    IF n = 0 \/ ~Ok(w) THEN w
    ELSE write_byte_bits(write_bit(w, byte % 2 = 1), byte \div 2, n - 1)

write_byte(w, byte, parasite_mode) ==
    LET w1 == write_byte_bits(w, byte, 8)
    IN  IF ~Ok(w1) \/ parasite_mode THEN w1
        ELSE disable_parasite_mode(w1)

write_command(w, cmd, parasite_mode) == write_byte(w, cmd, parasite_mode)

RECURSIVE write_bytes_loop(_, _, _)
write_bytes_loop(w, bytes, i) ==
    IF i > Len(bytes) \/ ~Ok(w) THEN w
    ELSE write_bytes_loop(write_byte(w, bytes[i], FALSE), bytes, i + 1)

write_bytes(w, bytes) ==
    LET w1 == write_bytes_loop(w, bytes, 1)
    IN  IF ~Ok(w1) \/ w.parasite_mode THEN w1
        ELSE disable_parasite_mode(w1)

RECURSIVE select_loop(_, _, _)
select_loop(w, address, i) ==
    IF i >= ADDRESS_BYTES \/ ~Ok(w) THEN w
    ELSE LET last == i = ADDRESS_BYTES - 1 IN
         select_loop(write_byte(w, address[i], w.parasite_mode /\ last),
                     address, i + 1)

select(w, address) ==
    select_loop(write_command(w, SelectRom, w.parasite_mode), address, 0)

---------------------------------------------------------------------------
(* OneWire::reset *)

\* One round of the polling loop; st.high: the loop has returned Ok(()).
ensure_wire_high_body(st) ==
    IF st.high \/ ~Ok(st.w) THEN st
    ELSE LET w1 == read(st.w) IN
         IF ~Ok(w1) THEN [st EXCEPT !.w = w1]
         ELSE IF w1.val THEN [w |-> w1, high |-> TRUE]
         ELSE [st EXCEPT !.w = delay_us(w1, 2)]

\* n rounds in order (as two halves, to keep the evaluation shallow).
RECURSIVE ensure_wire_high_loop(_, _)
ensure_wire_high_loop(st, n) ==
    IF n = 0 \/ st.high \/ ~Ok(st.w) THEN st
    ELSE IF n = 1 THEN ensure_wire_high_body(st)
    ELSE ensure_wire_high_loop(ensure_wire_high_loop(st, n \div 2),
                               n - (n \div 2))

\* Ok(()) if a poll read high, Err(WireNotHigh) after the last poll.
ensure_wire_high_result(st) ==
    IF ~Ok(st.w) \/ st.high THEN st.w
    ELSE [st.w EXCEPT !.err = "WireNotHigh"]

\* ensure_wire_high polling once more than it should.
ensure_wire_high_one_more(w) ==
    ensure_wire_high_result(
        ensure_wire_high_loop([w |-> w, high |-> FALSE], ENSURE_POLLS + 1))

ensure_wire_high(w) ==
    ensure_wire_high_result(
        ensure_wire_high_loop([w |-> w, high |-> FALSE], ENSURE_POLLS))

\* reset_sample keeping only the last sample (val = instead of val |=).
RECURSIVE reset_sample_last_only(_, _, _)
reset_sample_last_only(w, val, n) ==
    IF ~Ok(w) THEN w
    ELSE IF n = 0 THEN [w EXCEPT !.val = val]
    ELSE LET w1 == read(delay_us(w, 10)) IN
         reset_sample_last_only(w1, Ok(w1) /\ ~w1.val, n - 1)

RECURSIVE reset_sample(_, _, _)
reset_sample(w, val, n) ==
    IF ~Ok(w) THEN w
    ELSE IF n = 0 THEN [w EXCEPT !.val = val]
    ELSE LET w1 == read(delay_us(w, 10)) IN
         reset_sample(w1, val \/ (Ok(w1) /\ ~w1.val), n - 1)

reset(w) ==
    LET w1 == set_input(w)
        w2 == ensure_wire_high(w1)
        w3 == set_output(write_low(w2))
        w4 == delay_us(w3, 480)
        w5 == set_input(w4)
        w6 == reset_sample(w5, FALSE, PRESENCE_SAMPLES)
    IN  delay_us(w6, 410)

---------------------------------------------------------------------------
(* OneWire: reading bytes, and the composite transactions.  A function that *)
(* fills a buffer returns the world and the buffer: [w, dst]; read_byte     *)
(* returns the world and the byte: [w, byte].                               *)

\* read_byte_bit shifting the other way (byte <<= 1; byte |= 0x01).
read_byte_bit_msb_first(byte, w) ==
    [w |-> w,
     byte |-> IF ~Ok(w) THEN byte
              ELSE IF w.val THEN ((byte * 2) % 256) + 1 ELSE (byte * 2) % 256]

\* byte >>= 1; if self.read_bit(delay)? { byte |= 0x80; }
read_byte_bit(byte, w) ==
    [w |-> w,
     byte |-> IF ~Ok(w) THEN byte
              ELSE IF w.val THEN (byte \div 2) + 128 ELSE byte \div 2]

RECURSIVE read_byte_loop(_, _)
read_byte_loop(st, n) ==
    IF n = 0 \/ ~Ok(st.w) THEN st
    ELSE read_byte_loop(read_byte_bit(st.byte, read_bit(st.w)), n - 1)

read_byte(w) == read_byte_loop([w |-> w, byte |-> 0], 8)

\* *d = self.read_byte(delay)?;
read_bytes_store(dst, i, r) ==
    [w |-> r.w, dst |-> IF Ok(r.w) THEN [dst EXCEPT ![i] = r.byte] ELSE dst]

RECURSIVE read_bytes_loop(_, _)
read_bytes_loop(st, i) ==
    IF i > Len(st.dst) \/ ~Ok(st.w) THEN st
    ELSE read_bytes_loop(read_bytes_store(st.dst, i, read_byte(st.w)), i + 1)

read_bytes(w, dst) == read_bytes_loop([w |-> w, dst |-> dst], 1)

\* reset_select_write_read calling select twice.
reset_select_write_read_select_twice(w, device, write, read_buf) ==
    read_bytes(write_bytes(select(select(reset(w), device), device), write),
               read_buf)

\* Each step is followed by ?: a failed world passes through the later
\* steps untouched.  The bool returned by reset is not looked at.
reset_select_write_read(w, device, write, read_buf) ==
    read_bytes(write_bytes(select(reset(w), device), write), read_buf)

reset_select_read_only(w, device, read_buf) ==
    read_bytes(select(reset(w), device), read_buf)

reset_select_write_only(w, device, write) ==
    write_bytes(select(reset(w), device), write)

---------------------------------------------------------------------------
(* Device and DeviceSearch *)

ZeroBytes == [i \in ByteIdx |-> 0]

is_bit_set(array, bit) ==
    IF bit \div 8 >= ADDRESS_BYTES THEN FALSE
    ELSE (array[bit \div 8] \div Pow2(bit % 8)) % 2 # 0

set_bit(array, bit) ==
    IF bit \div 8 >= ADDRESS_BYTES THEN array
    ELSE IF is_bit_set(array, bit) THEN array
    ELSE [array EXCEPT ![bit \div 8] = @ + Pow2(bit % 8)]

reset_bit(array, bit) ==
    IF bit \div 8 >= ADDRESS_BYTES THEN array
    ELSE IF is_bit_set(array, bit)
    THEN [array EXCEPT ![bit \div 8] = @ - Pow2(bit % 8)]
    ELSE array

DeviceSearch_new ==
    [address |-> ZeroBytes, discrepancies |-> ZeroBytes, state |-> "Initialized"]

new_for_family(family) ==
    [DeviceSearch_new EXCEPT !.address[0] = family]

is_bit_set_in_address(rom, bit) == is_bit_set(rom.address, bit)

set_bit_in_address(rom, bit) ==
    [rom EXCEPT !.address = set_bit(rom.address, bit)]

reset_bit_in_address(rom, bit) ==
    [rom EXCEPT !.address = reset_bit(rom.address, bit)]

write_bit_in_address(rom, bit, value) ==
    IF value THEN set_bit_in_address(rom, bit)
    ELSE reset_bit_in_address(rom, bit)

is_bit_set_in_discrepancies(rom, bit) == is_bit_set(rom.discrepancies, bit)

set_bit_in_discrepancy(rom, bit) ==
    [rom EXCEPT !.discrepancies = set_bit(rom.discrepancies, bit)]

\* reset_bit_in_discrepancy that leaves the bit as it is.
reset_bit_in_discrepancy_kept(rom, bit) == rom

reset_bit_in_discrepancy(rom, bit) ==
    [rom EXCEPT !.discrepancies = reset_bit(rom.discrepancies, bit)]

RECURSIVE last_discrepancy_loop(_, _, _)
last_discrepancy_loop(rom, i, result) ==
    IF i >= ADDRESS_BITS THEN result
    ELSE last_discrepancy_loop(rom, i + 1,
            IF is_bit_set_in_discrepancies(rom, i) THEN Some(i) ELSE result)

\* last_discrepancy giving the lowest bit set.
last_discrepancy_lowest(rom) ==
    IF \A i \in 0..(ADDRESS_BITS - 1) : ~is_bit_set_in_discrepancies(rom, i)
    THEN None
    ELSE Some(CHOOSE i \in 0..(ADDRESS_BITS - 1) :
                /\ is_bit_set_in_discrepancies(rom, i)
                /\ \A j \in 0..(i - 1) : ~is_bit_set_in_discrepancies(rom, j))

last_discrepancy(rom) == last_discrepancy_loop(rom, 0, None)

---------------------------------------------------------------------------
(* OneWire::search.  The loops carry st: the world, the cursor, the          *)
(* discrepancy_found flag and whether the call has returned (stop).         *)

\* The loops' write_bit(...)? after the cursor has been updated to rom.
search_write(st, rom, df, w) ==
    [st EXCEPT !.rom = rom, !.df = df, !.w = w, !.stop = ~Ok(w)]

\* One round of "walk previous path", after its two reads r.
search_replay_write(st, i, r) ==
    IF ~Ok(r.w) THEN [st EXCEPT !.w = r.w, !.stop = TRUE]
    ELSE IF r.bit0 /\ r.w.val THEN [st EXCEPT !.w = r.w, !.stop = TRUE]
    ELSE search_write(st, st.rom, st.df,
                      write_bit(r.w, is_bit_set_in_address(st.rom, i)))

search_replay_body(st, i) == search_replay_write(st, i, read_bit_pair(st.w))

RECURSIVE search_replay(_, _, _)
search_replay(st, i, last) ==
    IF i >= last \/ st.stop THEN st
    ELSE search_replay(search_replay_body(st, i), i + 1, last)

\* search_walk_decide that forgets to record a discrepancy.
search_walk_decide_fork_forgotten(st, i, last, r) ==
    IF ~Ok(r.w) THEN [st EXCEPT !.w = r.w, !.stop = TRUE]
    ELSE IF last = Some(i)
    THEN search_write(st,
             set_bit_in_address(reset_bit_in_discrepancy(st.rom, i), i),
             st.df, write_bit(r.w, TRUE))
    ELSE IF r.bit0 /\ r.w.val THEN [st EXCEPT !.w = r.w, !.stop = TRUE]
    ELSE IF ~r.bit0 /\ ~r.w.val
    THEN search_write(st, reset_bit_in_address(st.rom, i),
                      st.df, write_bit(r.w, FALSE))
    ELSE search_write(st, write_bit_in_address(st.rom, i, r.bit0),
                      st.df, write_bit(r.w, r.bit0))

\* search_walk_decide that takes the 1 branch first and the 0 branch second.
search_walk_decide_one_first(st, i, last, r) ==
    IF ~Ok(r.w) THEN [st EXCEPT !.w = r.w, !.stop = TRUE]
    ELSE IF last = Some(i)
    THEN search_write(st,
             reset_bit_in_address(reset_bit_in_discrepancy(st.rom, i), i),
             st.df, write_bit(r.w, FALSE))
    ELSE IF r.bit0 /\ r.w.val THEN [st EXCEPT !.w = r.w, !.stop = TRUE]
    ELSE IF ~r.bit0 /\ ~r.w.val
    THEN search_write(st,
             set_bit_in_address(set_bit_in_discrepancy(st.rom, i), i),
             TRUE, write_bit(r.w, TRUE))
    ELSE search_write(st, write_bit_in_address(st.rom, i, r.bit0),
                      st.df, write_bit(r.w, r.bit0))

\* One round of the discovery loop, after its two reads r.
search_walk_decide(st, i, last, r) ==
    IF ~Ok(r.w) THEN [st EXCEPT !.w = r.w, !.stop = TRUE]
    ELSE IF last = Some(i)
    THEN search_write(st,
             set_bit_in_address(reset_bit_in_discrepancy(st.rom, i), i),
             st.df, write_bit(r.w, TRUE))
    ELSE IF r.bit0 /\ r.w.val THEN [st EXCEPT !.w = r.w, !.stop = TRUE]
    ELSE IF ~r.bit0 /\ ~r.w.val
    THEN search_write(st,
             reset_bit_in_address(set_bit_in_discrepancy(st.rom, i), i),
             TRUE, write_bit(r.w, FALSE))
    ELSE search_write(st, write_bit_in_address(st.rom, i, r.bit0),
                      st.df, write_bit(r.w, r.bit0))

search_walk_body(st, i, last) ==
    search_walk_decide(st, i, last, read_bit_pair(st.w))

RECURSIVE search_walk(_, _, _)
search_walk(st, i, last) ==
    IF i >= ADDRESS_BITS \/ st.stop THEN st
    ELSE search_walk(search_walk_body(st, i, last), i + 1, last)

Returned(w, rom, val) == [w |-> w, rom |-> rom, val |-> val]

\* search_result that ends the search whenever this call found no new fork.
search_result_end_early(st) ==
    IF st.stop THEN Returned(st.w, st.rom, None)
    ELSE Returned(st.w,
                  [st.rom EXCEPT !.state = IF ~st.df THEN "End"
                                           ELSE "DeviceFound"],
                  Some(st.rom.address))

\* After the loops: an early return inside them, or the device found.
search_result(st) ==
    IF st.stop THEN Returned(st.w, st.rom, None)
    ELSE Returned(st.w,
                  [st.rom EXCEPT !.state =
                      IF ~st.df /\ last_discrepancy(st.rom) = None
                      THEN "End" ELSE "DeviceFound"],
                  Some(st.rom.address))

\* After the command byte: the two loops.
search_paths(w, rom, last) ==
    IF ~Ok(w) THEN Returned(w, rom, None)
    ELSE IF last = None /\ rom.state = "DeviceFound"
    THEN Returned(w, [rom EXCEPT !.state = "End"], None)
    ELSE search_result(
             search_walk(
                 search_replay(
                     [w |-> w, rom |-> rom, df |-> FALSE, stop |-> FALSE],
                     0, IF last # None THEN last[1] ELSE 0),
                 IF last # None THEN last[1] ELSE 0, last))

\* After the reset: if !self.reset(delay)? { return Ok(None); }
search_on_presence(w, rom, cmd, last) ==
    IF ~Ok(w) \/ ~w.val THEN Returned(w, rom, None)
    ELSE search_paths(write_byte(w, cmd, FALSE), rom, last)

\* search without its check of the End phase.
search_past_end(w, rom, cmd) ==
    search_on_presence(reset(w), rom, cmd, last_discrepancy(rom))

search(w, rom, cmd) ==
    IF rom.state = "End" THEN Returned(w, rom, None)
    ELSE search_on_presence(reset(w), rom, cmd, last_discrepancy(rom))

search_next(w, rom) == search(w, rom, SearchNext)

search_next_alarmed(w, rom) == search(w, rom, SearchNextAlarmed)

---------------------------------------------------------------------------
(* DeviceSearchIter: its search field is an Option<DeviceSearch>; next      *)
(* returns the world, the field and the item: [w, it, item], the item an    *)
(* Option<Result<Device, _>>.                                               *)

\* A Result<T, Error<E>>: the error, or the value.
Result(w, val) == [err |-> w.err, val |-> IF Ok(w) THEN val ELSE <<>>]

into_iter(rom) == Some(rom)

\* next putting the cursor back before it looks at the result.
iter_next_result_restartable(r) ==
    IF Ok(r.w) /\ r.val = None
    THEN [w |-> r.w, it |-> Some(r.rom), item |-> None]
    ELSE [w |-> r.w, it |-> Some(r.rom), item |-> Some(Result(r.w, r.val))]

\* .transpose()?; self.search = Some(search); Some(result)
iter_next_result(r) ==
    IF Ok(r.w) /\ r.val = None
    THEN [w |-> r.w, it |-> None, item |-> None]
    ELSE [w |-> r.w, it |-> Some(r.rom), item |-> Some(Result(r.w, r.val))]

iter_next(w, it) ==
    IF it = None THEN [w |-> w, it |-> None, item |-> None]
    ELSE iter_next_result(search_next(w, it[1]))

---------------------------------------------------------------------------
(* CRC-8 *)

CRC_TABLE ==
    << 0,  94, 188, 226,  97,  63, 221, 131, 194, 156, 126,  32, 163, 253,  31,  65,
       157, 195,  33, 127, 252, 162,  64,  30,  95,   1, 227, 189,  62,  96, 130, 220,
        35, 125, 159, 193,  66,  28, 254, 160, 225, 191,  93,   3, 128, 222,  60,  98,
       190, 224,   2,  92, 223, 129,  99,  61, 124,  34, 192, 158,  29,  67, 161, 255,
        70,  24, 250, 164,  39, 121, 155, 197, 132, 218,  56, 102, 229, 187,  89,   7,
       219, 133, 103,  57, 186, 228,   6,  88,  25,  71, 165, 251, 120,  38, 196, 154,
       101,  59, 217, 135,   4,  90, 184, 230, 167, 249,  27,  69, 198, 152, 122,  36,
       248, 166,  68,  26, 153, 199,  37, 123,  58, 100, 134, 216,  91,   5, 231, 185,
       140, 210,  48, 110, 237, 179,  81,  15,  78,  16, 242, 172,  47, 113, 147, 205,
        17,  79, 173, 243, 112,  46, 204, 146, 211, 141, 111,  49, 178, 236,  14,  80,
       175, 241,  19,  77, 206, 144, 114,  44, 109,  51, 209, 143,  12,  82, 176, 238,
        50, 108, 142, 208,  83,  13, 239, 177, 240, 174,  76,  18, 145, 207,  45, 115,
       202, 148, 118,  40, 171, 245,  23,  73,   8,  86, 180, 234, 105,  55, 213, 139,
        87,   9, 235, 181,  54, 104, 138, 212, 149, 203,  41, 119, 244, 170,  72,  22,
       233, 183,  85,  11, 136, 214,  52, 106,  43, 117, 151, 201,  74,  20, 246, 168,
       116,  42, 200, 150,  21,  75, 169, 247, 182, 232,  10,  84, 215, 137, 107,  53 >>

BitXor8(a, b) ==
    LET x(i) == (((a \div Pow2(i)) % 2) + ((b \div Pow2(i)) % 2)) % 2
    IN  x(0) + 2 * x(1) + 4 * x(2) + 8 * x(3)
        + 16 * x(4) + 32 * x(5) + 64 * x(6) + 128 * x(7)

\* The fold's closure: |acc, &byte| CRC_TABLE[(byte ^ acc) as usize]
crc8_step(acc, byte) == CRC_TABLE[BitXor8(byte, acc) + 1]

RECURSIVE crc8_fold(_, _, _)
crc8_fold(acc, bytes, i) ==
    IF i > Len(bytes) THEN acc
    ELSE crc8_fold(crc8_step(acc, bytes[i]), bytes, i + 1)

AddressSeq(address) == [i \in 1..ADDRESS_BYTES |-> address[i - 1]]

\* compute_crc8 folding the data before the address.
compute_crc8_data_first(address, data) ==
    crc8_fold(0, data \o AddressSeq(address), 1)

compute_crc8(address, data) == crc8_fold(0, AddressSeq(address) \o data, 1)

---------------------------------------------------------------------------
(* ensure_correct_rcr8 and the DS18B20 driver (src/src/ds18b20.rs).  A      *)
(* Result<_, Error<E>> is a record: err = "" and the value in val, or the   *)
(* error's name in err and, for CrcMismatch, its two fields.                *)

FAMILY_CODE == 40
Convert == 68
ReadScratchpad == 190

CrcMismatch(computed, expected) ==
    [err |-> "CrcMismatch", val |-> <<>>,
     computed |-> computed, expected |-> expected]

\* ensure_correct_rcr8 reporting its two values the wrong way round.
ensure_correct_rcr8_swapped(address, data, crc8) ==
    LET computed == compute_crc8(address, data)
    IN  IF computed # crc8 THEN CrcMismatch(crc8, computed)
        ELSE [err |-> "", val |-> <<>>]

ensure_correct_rcr8(address, data, crc8) ==
    LET computed == compute_crc8(address, data)
    IN  IF computed # crc8 THEN CrcMismatch(computed, crc8)
        ELSE [err |-> "", val |-> <<>>]

\* LittleEndian::read_u16(&scratchpad[0..2])
read_temperature_from_scratchpad(scratchpad) ==
    scratchpad[1] + 256 * scratchpad[2]

\* After the transaction r = [w, dst]: its error, or the CRC check and
\* the temperature.
read_temperature_checked(r, checked) ==
    [w |-> r.w,
     ret |-> IF ~Ok(r.w) THEN [err |-> r.w.err, val |-> <<>>]
             ELSE IF checked.err # "" THEN checked
             ELSE [err |-> "",
                   val |-> <<read_temperature_from_scratchpad(r.dst)>>]]

read_temperature_check(address, r) ==
    read_temperature_checked(r,
        ensure_correct_rcr8(address, SubSeq(r.dst, 1, 8), r.dst[9]))

read_temperature(w, address) ==
    read_temperature_check(address,
        reset_select_write_read(w, address, <<ReadScratchpad>>,
                                [i \in 1..9 |-> 0]))

---------------------------------------------------------------------------
(* ds18b20: MeasureResolution and DS18B20::new *)

MeasureResolutions == {"TC8", "TC4", "TC2", "TC"}

time_ms(resolution) ==
    CASE resolution = "TC8" -> 94
      [] resolution = "TC4" -> 188
      [] resolution = "TC2" -> 375
      [] resolution = "TC" -> 750

FamilyCodeMismatch(expected, actual) ==
    [err |-> "FamilyCodeMismatch", val |-> <<>>,
     expected |-> expected, actual |-> actual]

\* new taking any device at all.
DS18B20_new_unchecked(device) ==
    [err |-> "", val |-> <<[device |-> device, resolution |-> "TC"]>>]

DS18B20_new(device) ==
    IF device[0] = FAMILY_CODE
    THEN [err |-> "", val |-> <<[device |-> device, resolution |-> "TC"]>>]
    ELSE FamilyCodeMismatch(FAMILY_CODE, device[0])

---------------------------------------------------------------------------
(* ds18b20::split_temp, in i16 arithmetic.  -temp_i16 overflows for         *)
(* temp_i16 = i16::MIN: a build with overflow checks (debug, or const       *)
(* evaluation) panics there, a build without them (release) wraps.          *)

I16_MIN == -32768

\* temperature as i16
as_i16(x) == IF x < 32768 THEN x ELSE x - 65536

\* x >> 4 on an i16: the arithmetic shift
shr4(x) == IF x >= 0 THEN x \div 16 ELSE -((-x + 15) \div 16)

\* x & 0xF on an i16 in two's complement
and_0xF(x) == IF x >= 0 THEN x % 16 ELSE (16 - ((-x) % 16)) % 16

\* -x on an i16 without overflow checks
wrapping_neg(x) == IF x = I16_MIN THEN I16_MIN ELSE -x

Panic == [err |-> "panic", val |-> <<>>]

split_temp_negative(abs) ==
    [err |-> "", val |-> <<-shr4(abs), -625 * and_0xF(abs)>>]

split_temp(temperature, overflow_checks) ==
    IF temperature < 32768
    THEN [err |-> "",
          val |-> <<shr4(as_i16(temperature)),
                    and_0xF(as_i16(temperature)) * 625>>]
    ELSE IF overflow_checks /\ as_i16(temperature) = I16_MIN THEN Panic
    ELSE split_temp_negative(wrapping_neg(as_i16(temperature)))

---------------------------------------------------------------------------
(* Device: Display and FromStr.  A str is the sequence of its characters.   *)

LowerHex ==
    <<"0", "1", "2", "3", "4", "5", "6", "7",
      "8", "9", "a", "b", "c", "d", "e", "f">>

UpperHex ==
    <<"0", "1", "2", "3", "4", "5", "6", "7",
      "8", "9", "A", "B", "C", "D", "E", "F">>

Address == [ByteIdx -> Byte]

\* {:x}: no padding.
lower_hex_unpadded(byte) ==
    IF byte < 16 THEN <<LowerHex[byte + 1]>>
    ELSE <<LowerHex[(byte \div 16) + 1], LowerHex[(byte % 16) + 1]>>

\* {:02x}
lower_hex_02(byte) ==
    IF byte < 16 THEN <<"0", LowerHex[byte + 1]>>
    ELSE <<LowerHex[(byte \div 16) + 1], LowerHex[(byte % 16) + 1]>>

fmt(address) ==
    lower_hex_02(address[0]) \o <<":">> \o lower_hex_02(address[1]) \o <<":">> \o
    lower_hex_02(address[2]) \o <<":">> \o lower_hex_02(address[3]) \o <<":">> \o
    lower_hex_02(address[4]) \o <<":">> \o lower_hex_02(address[5]) \o <<":">> \o
    lower_hex_02(address[6]) \o <<":">> \o lower_hex_02(address[7])

\* char::to_digit(16): the digit's value, or -1
to_digit(c) ==
    IF \E d \in 0..15 : LowerHex[d + 1] = c
    THEN CHOOSE d \in 0..15 : LowerHex[d + 1] = c
    ELSE IF \E d \in 0..15 : UpperHex[d + 1] = c
    THEN CHOOSE d \in 0..15 : UpperHex[d + 1] = c
    ELSE -1

ParseIntError(kind) == [err |-> kind, val |-> <<>>]

\* The digits' value, most significant first; -1 past u8::MAX.
RECURSIVE radix_value(_, _, _)
radix_value(digits, i, acc) ==
    IF i > Len(digits) \/ acc < 0 THEN acc
    ELSE IF acc * 16 + to_digit(digits[i]) > 255 THEN -1
    ELSE radix_value(digits, i + 1, acc * 16 + to_digit(digits[i]))

from_str_radix_digits(digits) ==
    IF \E i \in 1..Len(digits) : to_digit(digits[i]) = -1
    THEN ParseIntError("InvalidDigit")
    ELSE IF radix_value(digits, 1, 0) < 0 THEN ParseIntError("PosOverflow")
    ELSE [err |-> "", val |-> <<radix_value(digits, 1, 0)>>]

\* u8::from_str_radix(src, 16): a lone sign is no number, a leading + is
\* skipped, a - is no digit of an unsigned type.
from_str_radix(src) ==
    IF src = <<>> THEN ParseIntError("Empty")
    ELSE IF src = <<"+">> \/ src = <<"-">> THEN ParseIntError("InvalidDigit")
    ELSE IF src[1] = "+" THEN from_str_radix_digits(Tail(src))
    ELSE from_str_radix_digits(src)

\* The eight slices parsed; the first error leaves.
from_str_parts(parts) ==
    IF \A i \in ByteIdx : parts[i].err = ""
    THEN [err |-> "", val |-> <<[i \in ByteIdx |-> parts[i].val[1]]>>]
    ELSE parts[CHOOSE i \in ByteIdx :
                 /\ parts[i].err # ""
                 /\ \A j \in 0..(i - 1) : parts[j].err = ""]

from_str(s) ==
    IF Len(s) < 23 THEN from_str_radix(<<>>)
    ELSE from_str_parts(
             [i \in ByteIdx |-> from_str_radix(SubSeq(s, 3 * i + 1, 3 * i + 2))])

---------------------------------------------------------------------------
(* The slaves on the simulated bus *)

MaxDevices == 3
MaxCalls == 5

\* A ROM as the factory writes it: family, six serial bytes, their CRC-8.
MkRom(family, serial) ==
    LET crc == crc8_fold(0, <<family>> \o serial, 1)
    IN  [i \in ByteIdx |-> IF i = 0 THEN family
                           ELSE IF i = 7 THEN crc
                           ELSE serial[i]]

\* A ROM whose last byte is not the CRC-8 of the seven before it.
MkBadRom(family, serial) ==
    [MkRom(family, serial) EXCEPT ![7] = (@ + 1) % 256]

Roms ==
    { MkRom(40, <<1, 0, 0, 0, 0, 0>>),
      MkRom(40, <<2, 0, 0, 0, 0, 0>>),
      MkRom(16, <<1, 0, 0, 0, 0, 0>>),
      MkRom(40, <<1, 0, 0, 0, 0, 128>>),
      MkBadRom(40, <<3, 0, 0, 0, 0, 0>>) }

AlarmedRoms ==
    { MkRom(40, <<2, 0, 0, 0, 0, 0>>), MkRom(16, <<1, 0, 0, 0, 0, 0>>) }

Families == {40, 16}

DeviceSets == {S \in SUBSET Roms : Cardinality(S) <= MaxDevices}

---------------------------------------------------------------------------
(* The search session: one cursor, one fault-free bus *)

NoCall == [name |-> "", arg |-> <<>>]

Init ==
    /\ \E devices \in DeviceSets :
           bus = NewBus(devices, devices \cap AlarmedRoms)
    /\ \E seed \in {None} \cup {Some(f) : f \in Families} :
           /\ cursor = IF seed = None THEN DeviceSearch_new
                       ELSE new_for_family(seed[1])
           /\ hist = [seed |-> seed, ncalls |-> 0, cmds |-> {}, found |-> <<>>]
    /\ wire \in [parasite_mode : BOOLEAN]
    /\ call = NoCall
    /\ ops = <<>>
    /\ ret = [err |-> "", val |-> <<>>]

SearchCall(name, r) ==
    /\ cursor' = r.rom
    /\ bus' = r.w.bus
    /\ ops' = r.w.ops
    /\ ret' = Result(r.w, r.val)
    /\ call' = [name |-> name, arg |-> <<>>]
    /\ hist' = [hist EXCEPT !.ncalls = @ + 1,
                            !.cmds = @ \cup {name},
                            !.found = IF Ok(r.w) /\ r.val # None
                                      THEN Append(@, r.val[1]) ELSE @]
    /\ UNCHANGED wire

SearchNextCall ==
    /\ hist.ncalls < MaxCalls
    /\ SearchCall("search_next",
                  search_next(World(bus, wire.parasite_mode), cursor))

SearchNextAlarmedCall ==
    /\ hist.ncalls < MaxCalls
    /\ SearchCall("search_next_alarmed",
                  search_next_alarmed(World(bus, wire.parasite_mode), cursor))

Next == SearchNextCall \/ SearchNextAlarmedCall

Spec == Init /\ [][Next]_vars

---------------------------------------------------------------------------
(* Claims about the search *)

Range(seq) == {seq[i] : i \in 1..Len(seq)}

NoRepeats(seq) == \A i, j \in 1..Len(seq) : i # j => seq[i] # seq[j]

\* The cursor came from DeviceSearch::new() and only search_next used it.
PlainSession == hist.seed = None /\ hist.cmds \subseteq {"search_next"}

\* C1: search completeness.  On a fault-free bus holding a non-empty set of
\* distinct addresses, the search_next calls on a cursor from
\* DeviceSearch::new() never return an address that is not on the bus nor
\* the same address twice, and once the phase is End they have returned
\* every address of the set.
C1_SearchComplete ==
    (PlainSession /\ bus.devices # {}) =>
        /\ Range(hist.found) \subseteq bus.devices
        /\ NoRepeats(hist.found)
        /\ cursor.state = "End" => Range(hist.found) = bus.devices

C1_Witness ==
    /\ PlainSession
    /\ Cardinality(bus.devices) = 3
    /\ cursor.state = "End"
    /\ Len(hist.found) = 3

\* C3: enumerating N >= 1 devices takes exactly N calls: each of the first
\* N search_next calls returns a device, the phase is End after the N-th
\* call and not before, and every later call returns nothing.
C3_ExactlyNCalls ==
    (PlainSession /\ bus.devices # {}) =>
        LET N == Cardinality(bus.devices) IN
        /\ Len(hist.found) = Min(hist.ncalls, N)
        /\ (cursor.state = "End") <=> (hist.ncalls >= N)
        /\ hist.ncalls > N => ret = [err |-> "", val |-> None]
        /\ (hist.ncalls >= 1 /\ hist.ncalls <= N) =>
               ret = [err |-> "", val |-> Some(hist.found[hist.ncalls])]

C3_Witness ==
    /\ PlainSession
    /\ Cardinality(bus.devices) = 3
    /\ hist.ncalls = 4
    /\ ret.val = None

\* a < b with the 64 address bits compared in wire order: bit 0 of byte 0,
\* the first bit on the wire, counts most.
WireLess(a, b) ==
    \E i \in 0..(ADDRESS_BITS - 1) :
        /\ RomBit(a, i) = 0
        /\ RomBit(b, i) = 1
        /\ \A j \in 0..(i - 1) : RomBit(a, j) = RomBit(b, j)

\* a < b as 64-bit numbers with byte 7 the most significant byte (the
\* 1-Wire ROM read as a little-endian integer).
NumLessLE(a, b) ==
    \E i \in ByteIdx :
        a[i] < b[i] /\ \A j \in (i + 1)..(ADDRESS_BYTES - 1) : a[j] = b[j]

\* a < b as 64-bit numbers with byte 0 the most significant byte (the
\* order #[derive(PartialOrd)] gives Device).
NumLessBE(a, b) ==
    \E i \in ByteIdx : a[i] < b[i] /\ \A j \in 0..(i - 1) : a[j] = b[j]

\* C2 as claimed: each device returned is greater, compared as a binary
\* number, than the one returned by the previous call (with either end of
\* the address taken as the most significant byte).
C2_NumericOrder ==
    PlainSession =>
        \A k \in 1..(Len(hist.found) - 1) :
            \/ NumLessLE(hist.found[k], hist.found[k + 1])
            \/ NumLessBE(hist.found[k], hist.found[k + 1])

\* C2 as amended: the devices returned by successive search_next calls come
\* in strictly ascending order of their address bits compared in wire
\* order, bit 0 of byte 0 (the least significant bit of the family code)
\* counting most.
C2_WireOrder ==
    PlainSession =>
        \A k \in 1..(Len(hist.found) - 1) :
            WireLess(hist.found[k], hist.found[k + 1])

C2_Witness ==
    /\ PlainSession
    /\ Len(hist.found) = 3
    /\ WireLess(hist.found[1], hist.found[2])
    /\ WireLess(hist.found[2], hist.found[3])

IsSearchCall == call.name \in {"search_next", "search_next_alarmed"}

\* C4: once the cursor has phase End, every further search_next or
\* search_next_alarmed call returns Ok(None), leaves the address bytes, the
\* discrepancy bitmap and the phase as they were and does nothing on the
\* bus.
C4_EndIsTerminal ==
    [][ cursor.state = "End" =>
            /\ cursor' = cursor
            /\ ret' = [err |-> "", val |-> None]
            /\ ops' = <<>>
            /\ bus' = bus ]_vars

C4_Witness ==
    /\ cursor.state = "End"
    /\ call.name = "search_next_alarmed"
    /\ hist.cmds = {"search_next", "search_next_alarmed"}
    /\ ops = <<>>
    /\ ret = [err |-> "", val |-> None]
    /\ cursor.address # ZeroBytes

\* C5 as claimed: every device returned by search_next on a cursor from
\* DeviceSearch::new_for_family(f) has family code f.
C5_FamilySeeded ==
    (hist.seed # None /\ hist.cmds \subseteq {"search_next"}) =>
        \A k \in 1..Len(hist.found) : hist.found[k][0] = hist.seed[1]

\* The CRC-8 of address bytes 0-6 is address byte 7.
RomCrcOk(address) ==
    crc8_fold(0, [i \in 1..(ADDRESS_BYTES - 1) |-> address[i - 1]], 1)
        = address[ADDRESS_BYTES - 1]

\* C6 as claimed: a search call never returns a Device whose address byte
\* 7 differs from the CRC-8 of its bytes 0-6.
C6_CrcValidated ==
    (IsSearchCall /\ ret.err = "" /\ ret.val # None) => RomCrcOk(ret.val[1])

---------------------------------------------------------------------------
(* The transport calls, one at a time, on a line with no slave.  The      *)
(* level the reads of a reset see is scripted: an idle line followed by   *)
(* any pattern in the seven presence samples, or a line low for a number  *)
(* of polls (a short circuit that clears, or does not) followed by        *)
(* no presence pulse or a full one.                                       *)

MaxStuckPolls == 126
MaxSliceLen == 2

Lows(n) == [i \in 1..n |-> 0]

Samples == [1..PRESENCE_SAMPLES -> {0, 1}]

AllHigh == [i \in 1..PRESENCE_SAMPLES |-> 1]

AllLow == [i \in 1..PRESENCE_SAMPLES |-> 0]

ResetTapes ==
    {<<>>}
    \cup { <<1>> \o s : s \in Samples }
    \cup { Lows(n) \o <<1>> \o s : n \in 1..MaxStuckPolls, s \in {AllHigh, AllLow} }

SliceBytes == {0, 68, 190, 255}

Slices == UNION {[1..n -> SliceBytes] : n \in 0..MaxSliceLen}

InitWire ==
    /\ bus = NewBus({}, {})
    /\ wire \in [parasite_mode : BOOLEAN]
    /\ cursor = DeviceSearch_new
    /\ hist = [seed |-> None, ncalls |-> 0, cmds |-> {}, found |-> <<>>]
    /\ call = NoCall
    /\ ops = <<>>
    /\ ret = [err |-> "", val |-> <<>>]

\* A call returned with world w and, if Ok, value val.
WireCall(name, arg, w, val) ==
    /\ call' = [name |-> name, arg |-> arg]
    /\ ops' = w.ops
    /\ ret' = Result(w, val)
    /\ bus' = [w.bus EXCEPT !.tape = <<>>]
    /\ UNCHANGED <<wire, cursor, hist>>

ResetCall ==
    /\ call = NoCall
    /\ \E tape \in ResetTapes :
          LET w == reset(World([bus EXCEPT !.tape = tape], wire.parasite_mode))
          IN  WireCall("reset", <<>>, w, <<w.val>>)

WriteBitCall ==
    /\ call = NoCall
    /\ \E high \in BOOLEAN :
          LET w == write_bit(World(bus, wire.parasite_mode), high)
          IN  WireCall("write_bit", <<high>>, w, <<>>)

WriteByteCall ==
    /\ call = NoCall
    /\ \E byte \in Byte, parasite_mode \in BOOLEAN :
          LET w == write_byte(World(bus, wire.parasite_mode), byte, parasite_mode)
          IN  WireCall("write_byte", <<byte, parasite_mode>>, w, <<>>)

WriteBytesCall ==
    /\ call = NoCall
    /\ \E bytes \in Slices :
          LET w == write_bytes(World(bus, wire.parasite_mode), bytes)
          IN  WireCall("write_bytes", <<bytes>>, w, <<>>)

SelectCall ==
    /\ call = NoCall
    /\ \E address \in Roms :
          LET w == select(World(bus, wire.parasite_mode), address)
          IN  WireCall("select", <<address>>, w, <<>>)

\* What a slave puts on the line to send a byte: its bits, bit 0 first.
BitsOf(byte) == [k \in 1..8 |-> (byte \div Pow2(k - 1)) % 2]

RECURSIVE BitsOfBytes(_, _)
BitsOfBytes(bytes, i) ==
    IF i > Len(bytes) THEN <<>>
    ELSE BitsOf(bytes[i]) \o BitsOfBytes(bytes, i + 1)

\* What the slaves sample from a trace of the master's pin: one bit for
\* each low pulse, 1 when the pulse is shorter than SLOT_SAMPLE_US.
IsLowPulse(t, i) ==
    /\ i + 2 <= Len(t)
    /\ t[i] = <<"set_low", 0>>
    /\ t[i + 1][1] = "delay_us"
    /\ t[i + 2] = <<"set_high", 0>>

LineBits(t) ==
    LET pulse(i) == IsLowPulse(t, i)
        starts == SelectSeq([i \in 1..Len(t) |-> i], pulse)
    IN  [k \in 1..Len(starts) |->
            IF t[starts[k] + 1][2] < SLOT_SAMPLE_US THEN 1 ELSE 0]

Zeros(n) == [i \in 1..n |-> 0]

\* What the reads of a transaction's reset see: an idle line and no
\* presence pulse, a presence pulse, a late presence pulse after one low
\* poll, a line stuck low.
TxnResetTapes ==
    { <<1>> \o AllHigh, <<1>> \o AllLow,
      <<0, 1, 1, 1, 0, 0, 1, 1, 1>>, Lows(ENSURE_POLLS) }

TxnDevices ==
    { MkRom(40, <<1, 0, 0, 0, 0, 0>>), MkRom(16, <<1, 0, 0, 0, 0, 0>>) }

TxnWrites == { <<>>, <<190>>, <<68, 78>> }

TxnReads == { <<>>, <<170>>, <<1, 128>> }

TxnWorld(tape, data) ==
    World([bus EXCEPT !.tape = tape \o BitsOfBytes(data, 1)],
          wire.parasite_mode)

ResetSelectWriteReadCall ==
    /\ call = NoCall
    /\ \E tape \in TxnResetTapes, device \in TxnDevices,
          write \in TxnWrites, data \in TxnReads :
          LET r == reset_select_write_read(TxnWorld(tape, data), device,
                                           write, Zeros(Len(data)))
          IN  WireCall("reset_select_write_read", <<device, write, data>>,
                       r.w, <<r.dst>>)

ResetSelectReadOnlyCall ==
    /\ call = NoCall
    /\ \E tape \in TxnResetTapes, device \in TxnDevices, data \in TxnReads :
          LET r == reset_select_read_only(TxnWorld(tape, data), device,
                                          Zeros(Len(data)))
          IN  WireCall("reset_select_read_only", <<device, <<>>, data>>,
                       r.w, <<r.dst>>)

ResetSelectWriteOnlyCall ==
    /\ call = NoCall
    /\ \E tape \in TxnResetTapes, device \in TxnDevices, write \in TxnWrites :
          LET w == reset_select_write_only(TxnWorld(tape, <<>>), device, write)
          IN  WireCall("reset_select_write_only", <<device, write, <<>>>>,
                       w, <<>>)

\* read_byte of the bits that write_byte(byte) put on the line.
ReadByteCall ==
    /\ call = NoCall
    /\ \E byte \in Byte :
          LET sent == write_byte(World(NewBus({}, {}), FALSE), byte, FALSE)
              r == read_byte(World([bus EXCEPT !.tape = LineBits(sent.ops)],
                                   wire.parasite_mode))
          IN  WireCall("read_byte", <<byte>>, r.w, <<r.byte>>)

\* The scratchpad a DS18B20 sends: 8 bytes and their CRC-8, which for a
\* sensor whose ROM carries its own CRC is the CRC-8 of the ROM followed
\* by the 8 bytes.
MkScratchpad(address, data) == data \o <<compute_crc8(address, data)>>

SensorDevices ==
    { MkRom(FAMILY_CODE, <<1, 0, 0, 0, 0, 0>>),
      MkRom(FAMILY_CODE, <<2, 0, 0, 0, 0, 0>>) }

ScratchpadData ==
    { <<80, 5, 75, 70, 127, 255, 12, 16>>, <<145, 1, 0, 0, 31, 255, 15, 16>> }

\* Line noise: the bits flipped in the corrupted byte.
CorruptMasks == {1, 16, 128, 140, 255}

\* The scratchpads received: as sent, or with one byte changed.
Received(good) ==
    {good} \cup { [good EXCEPT ![pos] = BitXor8(@, mask)] :
                     pos \in 1..9, mask \in CorruptMasks }

ReadTemperatureCall ==
    /\ call = NoCall
    /\ \E address \in SensorDevices, data \in ScratchpadData :
          \E received \in Received(MkScratchpad(address, data)) :
             LET r == read_temperature(
                          TxnWorld(<<1>> \o AllLow, received), address)
             IN  /\ call' = [name |-> "read_temperature",
                             arg |-> <<address, MkScratchpad(address, data),
                                       received>>]
                 /\ ops' = r.w.ops
                 /\ ret' = r.ret
                 /\ bus' = [r.w.bus EXCEPT !.tape = <<>>]
                 /\ UNCHANGED <<wire, cursor, hist>>

\* The caller takes the result; time passes before its next call.
Idle ==
    /\ call # NoCall
    /\ call' = NoCall
    /\ ops' = <<>>
    /\ ret' = [err |-> "", val |-> <<>>]
    /\ bus' = BusDelay(bus, TIME_CAP_US)
    /\ UNCHANGED <<wire, cursor, hist>>

NextWire ==
    \/ ResetCall
    \/ WriteBitCall
    \/ WriteByteCall
    \/ WriteBytesCall
    \/ SelectCall
    \/ ReadByteCall
    \/ ResetSelectWriteReadCall
    \/ ResetSelectReadOnlyCall
    \/ ResetSelectWriteOnlyCall
    \/ ReadTemperatureCall
    \/ Idle

SpecWire == InitWire /\ [][NextWire]_vars

---------------------------------------------------------------------------
(* Claims about the transport calls, read off the pin trace of the call *)

LowIdx == {i \in 1..Len(ops) : ops[i][1] = "set_low"}

\* The first time the call drives the line low (past the end if never).
FirstLow ==
    IF LowIdx = {} THEN Len(ops) + 1
    ELSE CHOOSE i \in LowIdx : \A j \in LowIdx : i <= j

\* The reads before the line is first driven low, and those after.
Polls == {i \in 1..(FirstLow - 1) : ops[i][1] = "is_high"}

SampleIdx == {i \in (FirstLow + 1)..Len(ops) : ops[i][1] = "is_high"}

\* C7: when the idle line reads high, reset() does not fail; it returns
\* Ok(true) exactly when one of the 7 samples, taken 10 us apart after the
\* 480 us low pulse has been released, reads low, and so Ok(false) when
\* nothing answers.
C7_ResetPresence ==
    (/\ call.name = "reset"
     /\ ret.err # "PortError"
     /\ \E i \in Polls : ops[i] = <<"is_high", 1>>) =>
        /\ ret.err = ""
        /\ FirstLow + 2 <= Len(ops)
        /\ ops[FirstLow + 1] = <<"delay_us", 480>>
        /\ ops[FirstLow + 2] = <<"set_high", 0>>
        /\ SampleIdx = {FirstLow + 2 + 2 * k : k \in 1..7}
        /\ \A i \in SampleIdx : ops[i - 1] = <<"delay_us", 10>>
        /\ ret.val = << \E i \in SampleIdx : ops[i] = <<"is_high", 0>> >>

C7_Witness ==
    /\ call.name = "reset"
    /\ ret = [err |-> "", val |-> <<TRUE>>]
    /\ Cardinality({i \in SampleIdx : ops[i] = <<"is_high", 0>>}) = 1
    /\ ops[Len(ops) - 1] = <<"is_high", 1>>

\* C8: reset() drives the line low only after a poll read it high; it
\* never polls more than 125 times; it returns WireNotHigh, and no
\* presence result, exactly when 125 polls, 2 us apart, all read low, and
\* then it has not driven the line low.
C8_ResetStuckBus ==
    (call.name = "reset" /\ ret.err # "PortError") =>
        /\ Cardinality(Polls) <= 125
        /\ LowIdx # {} => \E i \in Polls : ops[i] = <<"is_high", 1>>
        /\ (ret.err = "WireNotHigh") <=>
               (/\ Cardinality(Polls) = 125
                /\ \A i \in Polls : ops[i] = <<"is_high", 0>>)
        /\ ret.err = "WireNotHigh" =>
               /\ ret.val = <<>>
               /\ LowIdx = {}
               /\ \A i \in Polls : ops[i + 1] = <<"delay_us", 2>>

C8_Witness ==
    /\ call.name = "reset"
    /\ ret.err = "WireNotHigh"
    /\ Cardinality(Polls) = 125
    /\ LowIdx = {}

DriveIdx == {i \in 1..Len(ops) : ops[i][1] \in {"set_low", "set_high"}}

\* The last drive operation the call applied to the pin.
LastDrive ==
    IF DriveIdx = {} THEN "none"
    ELSE ops[CHOOSE i \in DriveIdx : \A j \in DriveIdx : j <= i][1]

\* C9 as claimed: after a byte write without hold-power (write_byte with
\* parasite_mode = false, write_bytes on a bus created with parasite_mode =
\* false) the last drive operation applied to the pin is a release (float
\* high): the line is not left driven low.
C9_LineReleased ==
    (/\ ret.err = ""
     /\ \/ call.name = "write_byte" /\ call.arg[2] = FALSE
        \/ call.name = "write_bytes" /\ ~wire.parasite_mode) =>
        /\ LastDrive = "set_high"
        /\ bus.out = "high"

\* The bytes a pin trace writes: eight write slots each, least significant
\* bit first, a slot carrying 1 when its low pulse is shorter than the
\* slaves' sampling point; released: the byte is followed by the release
\* of disable_parasite_mode.
SlotAt(t, i) ==
    /\ i + 3 <= Len(t)
    /\ t[i] = <<"set_low", 0>>
    /\ t[i + 1][1] = "delay_us"
    /\ t[i + 2] = <<"set_high", 0>>
    /\ t[i + 3][1] = "delay_us"

SlotBit(t, i) == IF t[i + 1][2] < SLOT_SAMPLE_US THEN 1 ELSE 0

ByteAt(t, i) == \A k \in 0..7 : SlotAt(t, i + 4 * k)

ByteValue(t, i) ==
    SlotBit(t, i) + 2 * SlotBit(t, i + 4) + 4 * SlotBit(t, i + 8)
    + 8 * SlotBit(t, i + 12) + 16 * SlotBit(t, i + 16)
    + 32 * SlotBit(t, i + 20) + 64 * SlotBit(t, i + 24)
    + 128 * SlotBit(t, i + 28)

ReleaseAt(t, i) ==
    /\ i + 1 <= Len(t)
    /\ t[i] = <<"set_high", 0>>
    /\ t[i + 1] = <<"set_low", 0>>

RECURSIVE Written(_, _)
Written(t, i) ==
    IF i > Len(t) THEN <<>>
    ELSE IF ~ByteAt(t, i) THEN << [byte |-> -1, released |-> FALSE] >>
    ELSE LET released == ReleaseAt(t, i + 32) IN
         << [byte |-> ByteValue(t, i), released |-> released] >>
         \o Written(t, i + 32 + (IF released THEN 2 ELSE 0))

\* C10 as claimed: select(device) writes exactly 9 bytes, 0x55 followed by
\* address bytes 0..7 in stored order, and skips the release after the
\* byte only on the final address byte, and only if the bus's
\* parasite-mode flag is set.
C10_SelectWrites ==
    (call.name = "select" /\ ret.err = "") =>
        Written(ops, 1) =
            [k \in 1..9 |->
                [byte |-> IF k = 1 THEN 85 ELSE call.arg[1][k - 2],
                 released |-> ~(k = 9 /\ wire.parasite_mode)]]

\* The bit slots of the trace, in order: where each begins.
OpIdx == [i \in 1..Len(ops) |-> i]

IsWriteSlot(i) ==
    /\ i + 3 <= Len(ops)
    /\ ops[i] = <<"set_low", 0>>
    /\ ops[i + 1] \in {<<"delay_us", 10>>, <<"delay_us", 65>>}
    /\ ops[i + 2] = <<"set_high", 0>>

IsReadSlot(i) ==
    /\ i + 4 <= Len(ops)
    /\ ops[i] = <<"set_low", 0>>
    /\ ops[i + 1] = <<"delay_us", 3>>
    /\ ops[i + 2] = <<"set_high", 0>>
    /\ ops[i + 4][1] = "is_high"

WriteSlots == SelectSeq(OpIdx, IsWriteSlot)

ReadSlots == SelectSeq(OpIdx, IsReadSlot)

\* The bytes the write slots carry, eight slots a byte, first slot = bit 0.
WrittenBytes ==
    [k \in 1..(Len(WriteSlots) \div 8) |->
        LET bit(j) == SlotBit(ops, WriteSlots[8 * (k - 1) + j + 1])
        IN  bit(0) + 2 * bit(1) + 4 * bit(2) + 8 * bit(3)
            + 16 * bit(4) + 32 * bit(5) + 64 * bit(6) + 128 * bit(7)]

\* The reset pulses of the trace, and where a reset returned.
ResetPulses ==
    {i \in 1..(Len(ops) - 1) :
        ops[i] = <<"set_low", 0>> /\ ops[i + 1] = <<"delay_us", 480>>}

ResetEnds == {i \in 1..Len(ops) : ops[i] = <<"delay_us", 410>>}

IsTxn ==
    call.name \in {"reset_select_write_read", "reset_select_read_only",
                   "reset_select_write_only"}

\* C11: a composite transaction makes at most one reset; when it returns
\* Ok it made exactly one reset, every bit slot comes after that reset
\* returned, the write slots carry 0x55, the 8 address bytes of the given
\* device (one select) and then the bytes to write, every read slot comes
\* after the last write slot and there are 8 read slots per byte to read;
\* when the reset failed the trace has no bit slot and never drives low.
C11_TransactionOrder ==
    IsTxn =>
        /\ Cardinality(ResetPulses) <= 1
        /\ ret.err = "" =>
              /\ Cardinality(ResetPulses) = 1
              /\ Cardinality(ResetEnds) = 1
              /\ \A e \in ResetEnds :
                    /\ \A p \in ResetPulses : p < e
                    /\ \A k \in 1..Len(WriteSlots) : e < WriteSlots[k]
                    /\ \A k \in 1..Len(ReadSlots) : e < ReadSlots[k]
              /\ WrittenBytes =
                    <<SelectRom>> \o AddressSeq(call.arg[1]) \o call.arg[2]
              /\ Len(WriteSlots) = 8 * (9 + Len(call.arg[2]))
              /\ \A k \in 1..Len(ReadSlots) :
                    WriteSlots[Len(WriteSlots)] < ReadSlots[k]
              /\ Len(ReadSlots) = 8 * Len(call.arg[3])
        /\ ret.err # "" =>
              /\ WriteSlots = <<>> /\ ReadSlots = <<>>
              /\ LowIdx = {}

C11_Witness ==
    /\ call.name = "reset_select_write_read"
    /\ ret.err = ""
    /\ Len(call.arg[2]) = 2
    /\ Len(ReadSlots) = 16
    /\ ret.val = <<call.arg[3]>>


\* C12: write_byte(b) issues 8 write slots, the j-th (from 0) carrying bit
\* j of b; read_byte issues 8 read slots and returns the byte whose bit j
\* is the level read in the j-th slot; read_byte of the bits that writing
\* b put on the line returns b.
C12_LsbFirst ==
    /\ (call.name = "write_byte" /\ ret.err = "") =>
          /\ Len(WriteSlots) = 8
          /\ \A j \in 0..7 :
                SlotBit(ops, WriteSlots[j + 1]) = (call.arg[1] \div Pow2(j)) % 2
    /\ (call.name = "read_byte" /\ ret.err = "") =>
          /\ Len(ReadSlots) = 8
          /\ \A j \in 0..7 :
                (ret.val[1] \div Pow2(j)) % 2 = ops[ReadSlots[j + 1] + 4][2]
          /\ ret.val = <<call.arg[1]>>

C12_Witness ==
    /\ call.name = "read_byte"
    /\ call.arg = <<141>>
    /\ ret = [err |-> "", val |-> <<141>>]
    /\ ops[ReadSlots[1] + 4] = <<"is_high", 1>>
    /\ ops[ReadSlots[2] + 4] = <<"is_high", 0>>


---------------------------------------------------------------------------
(* The functions that do not touch the pin, called one at a time on inputs  *)
(* drawn from bounded sets.                                                 *)

\* Payloads: the slices, two 8-byte scratchpads.
CrcData ==
    Slices
    \cup {<<80, 5, 75, 70, 127, 255, 12, 16>>, <<145, 1, 0, 0, 31, 255, 15, 16>>}

InitPure ==
    /\ bus = NewBus({}, {})
    /\ wire = [parasite_mode |-> FALSE]
    /\ cursor = DeviceSearch_new
    /\ hist = [seed |-> None, ncalls |-> 0, cmds |-> {}, found |-> <<>>]
    /\ call = NoCall
    /\ ops = <<>>
    /\ ret = [err |-> "", val |-> <<>>]

\* A call that returned r without touching the pin.
PureCall(name, arg, r) ==
    /\ call' = [name |-> name, arg |-> arg]
    /\ ret' = r
    /\ UNCHANGED <<cursor, wire, bus, ops, hist>>

ComputeCrc8Call ==
    /\ call = NoCall
    /\ \E address \in Roms, data \in CrcData :
          PureCall("compute_crc8", <<address, data>>,
                   [err |-> "", val |-> <<compute_crc8(address, data)>>])

\* One step of the fold, from any register value.
Crc8StepCall ==
    /\ call = NoCall
    /\ \E acc \in SliceBytes, byte \in Byte :
          PureCall("crc8_step", <<acc, byte>>,
                   [err |-> "", val |-> <<crc8_step(acc, byte)>>])

RawTemperatures == 0..(Pow2(16) - 1)

\* split_temp on any raw value, in a build with or without overflow checks.
SplitTempCall ==
    /\ call = NoCall
    /\ \E temperature \in RawTemperatures, overflow_checks \in BOOLEAN :
          PureCall("split_temp", <<temperature>>,
                   split_temp(temperature, overflow_checks))

\* Addresses to format: every byte value at every place, small values next
\* to large ones.
DisplayAddresses ==
    Roms
    \cup { [i \in ByteIdx |-> b] : b \in Byte }
    \cup { [i \in ByteIdx |-> (b * (i + 1) + i) % 256] : b \in Byte }

to_uppercase(s) ==
    [k \in 1..Len(s) |->
        IF to_digit(s[k]) >= 0 THEN UpperHex[to_digit(s[k]) + 1] ELSE s[k]]

with_separator(s, c) ==
    [k \in 1..Len(s) |-> IF k % 3 = 0 THEN c ELSE s[k]]

\* Strings to parse: what fmt writes, and around it the same in upper
\* case, cut short, continued, with a sign and with a colon out of place.
FromStrInputs ==
    { fmt(a) : a \in DisplayAddresses }
    \cup { to_uppercase(fmt(a)) : a \in Roms }
    \cup { SubSeq(fmt(a), 1, 22) : a \in Roms }
    \cup { fmt(a) \o <<":", "0", "0">> : a \in Roms }
    \cup { <<"+">> \o Tail(fmt(a)) : a \in Roms }
    \cup { Tail(fmt(a)) \o <<"0">> : a \in Roms }
    \cup { with_separator(fmt(a), "-") : a \in Roms }

DisplayCall ==
    /\ call = NoCall
    /\ \E address \in DisplayAddresses :
          PureCall("fmt", <<address>>, [err |-> "", val |-> <<fmt(address)>>])

FromStrCall ==
    /\ call = NoCall
    /\ \E s \in FromStrInputs :
          PureCall("from_str", <<s>>, from_str(s))

\* DS18B20::new takes the device and nothing else: no wire, no delay.
Ds18b20NewCall ==
    /\ call = NoCall
    /\ \E device \in DisplayAddresses :
          PureCall("DS18B20::new", <<device>>, DS18B20_new(device))

NextPure ==
    \/ ComputeCrc8Call
    \/ Crc8StepCall
    \/ SplitTempCall
    \/ DisplayCall
    \/ FromStrCall
    \/ Ds18b20NewCall
    \/ Idle

SpecPure == InitPure /\ [][NextPure]_vars

\* The Dallas/Maxim CRC-8, bit by bit: for each data bit, least significant
\* first, shift the register right and xor 0x8C into it when the bit
\* shifted out differs from the data bit.
RECURSIVE DallasBits(_, _, _)
DallasBits(crc, byte, n) ==
    IF n = 0 THEN crc
    ELSE LET mix == ((crc % 2) + (byte % 2)) % 2
             shifted == crc \div 2
         IN  DallasBits(IF mix = 1 THEN BitXor8(shifted, 140) ELSE shifted,
                        byte \div 2, n - 1)

RECURSIVE DallasCrc8(_, _, _)
DallasCrc8(crc, bytes, i) ==
    IF i > Len(bytes) \/ crc \notin Byte THEN crc
    ELSE DallasCrc8(DallasBits(crc, bytes[i], 8), bytes, i + 1)

\* C13: compute_crc8(device, data) is the bitwise Dallas/Maxim CRC-8, seed
\* 0, of the 8 address bytes followed by the data bytes, and CRC_TABLE[i]
\* is that CRC of the single byte i for every i in 0..255.
C13_CrcIsDallas ==
    /\ call.name = "compute_crc8" =>
          ret.val = << DallasCrc8(0, AddressSeq(call.arg[1]) \o call.arg[2], 1) >>
    /\ call.name = "crc8_step" =>
          /\ ret.val = << DallasBits(call.arg[1], call.arg[2], 8) >>
          /\ call.arg[1] = 0 =>
                CRC_TABLE[call.arg[2] + 1] = DallasCrc8(0, <<call.arg[2]>>, 1)

C13_Witness ==
    /\ call.name = "compute_crc8"
    /\ call.arg[1] = MkRom(40, <<1, 0, 0, 0, 0, 0>>)
    /\ call.arg[2] = <<80, 5, 75, 70, 127, 255, 12, 16>>
    /\ ret.val # <<0>>


\* The positions at which two scratchpads differ.
Differ(a, b) == {i \in 1..9 : a[i] # b[i]}

\* C14: the third argument of the call is the scratchpad received, the
\* second the one sent, whose byte 8 is the CRC-8 of the address followed
\* by bytes 0-7.  Received as sent, read_temperature returns Ok with bytes
\* 0 and 1 as a little-endian u16; received with one byte changed, it
\* returns CrcMismatch and no temperature, computed = the CRC-8 of the
\* address followed by the received bytes 0-7, expected = the received
\* byte 8.
C14_ScratchpadValidated ==
    call.name = "read_temperature" =>
        LET address == call.arg[1]
            sent == call.arg[2]
            received == call.arg[3]
            crc == DallasCrc8(0, AddressSeq(address) \o SubSeq(received, 1, 8), 1)
        IN  /\ sent[9] = DallasCrc8(0, AddressSeq(address) \o SubSeq(sent, 1, 8), 1)
            /\ Differ(sent, received) = {} =>
                  ret = [err |-> "", val |-> <<received[1] + 256 * received[2]>>]
            /\ Cardinality(Differ(sent, received)) = 1 =>
                  /\ ret.err = "CrcMismatch"
                  /\ ret.val = <<>>
                  /\ ret.computed = crc
                  /\ ret.expected = received[9]
                  /\ ret.computed # ret.expected

C14_Witness ==
    /\ call.name = "read_temperature"
    /\ Differ(call.arg[2], call.arg[3]) = {2}
    /\ ret.err = "CrcMismatch"
    /\ ret.expected = call.arg[2][9]
    /\ Len(ReadSlots) = 72


---------------------------------------------------------------------------
(* A DeviceSearchIter driven by its caller: next(), the loop body, next()   *)
(* again.  Here cursor is the iterator's search field and hist records      *)
(* whether next() has returned None (ended) and whether next() has been     *)
(* called after that (late).  At each call the line is as the slaves leave  *)
(* it, or stuck low.                                                        *)

IterTapes == {<<>>, Lows(ENSURE_POLLS)}

InitIter ==
    /\ \E devices \in DeviceSets :
           bus = NewBus(devices, devices \cap AlarmedRoms)
    /\ cursor = into_iter(DeviceSearch_new)
    /\ hist = [ended |-> FALSE, late |-> FALSE]
    /\ wire \in [parasite_mode : BOOLEAN]
    /\ call = NoCall
    /\ ops = <<>>
    /\ ret = [err |-> "", val |-> <<>>]

IterNextCall ==
    /\ call = NoCall
    /\ \E tape \in IterTapes :
          LET r == iter_next(World([bus EXCEPT !.tape = tape],
                                   wire.parasite_mode), cursor)
          IN  /\ call' = [name |-> "next", arg |-> <<>>]
              /\ cursor' = r.it
              /\ ops' = r.w.ops
              /\ ret' = [err |-> "", val |-> r.item]
              /\ bus' = [r.w.bus EXCEPT !.tape = <<>>]
              /\ hist' = [ended |-> hist.ended \/ r.item = None,
                          late |-> hist.late \/ hist.ended]
              /\ UNCHANGED wire

NextIter ==
    \/ IterNextCall
    \/ Idle

\* The caller's side of IterNextCall: between two calls, it calls next().
\* next() is total, so IterNextCall is enabled exactly when this is, and a
\* step of NextIter that is a CallerCallsNext step is an IterNextCall step.
CallerCallsNext ==
    /\ call = NoCall
    /\ call' = [name |-> "next", arg |-> <<>>]

\* The caller keeps calling next() and taking what it returns.
SpecIter ==
    InitIter /\ [][NextIter]_vars /\ WF_call(CallerCallsNext) /\ WF_vars(Idle)

\* C15 as claimed: whatever the bus does, repeated next() calls eventually
\* return None.
C15_IterFinite == <>(hist.ended)

\* C16: once next() has returned None, every later next() returns None,
\* performs no pin operation and leaves the bus and the iterator as they
\* were.
C16_IterNonRestartable ==
    [][(hist.ended /\ call'.name = "next") =>
          /\ ret'.val = None
          /\ ops' = <<>>
          /\ bus' = bus
          /\ cursor' = None /\ cursor = None]_vars

\* next() called again after a None that a reset without presence caused.
C16_Witness ==
    /\ hist.late
    /\ call.name = "next"
    /\ ret.val = None
    /\ ops = <<>>
    /\ bus.devices = {}


---------------------------------------------------------------------------
(* Calls on a driver that fails: the pin operation number `at` of the call  *)
(* returns the driver's error (at = 0: none does).  The line is slave-less; *)
(* what slaves would answer is on the tape, so that every call is followed  *)
(* to its end when nothing fails.                                           *)

MaxFaultAt == 545

FaultPoints == 0..MaxFaultAt

FaultWorld(tape, at) ==
    World([bus EXCEPT !.tape = tape, !.failIn = at], wire.parasite_mode)

\* What the reads of a search see with one slave on the line: the idle
\* line, the presence pulse, then each ROM bit and its complement.
SearchTape(rom) ==
    <<1>> \o AllLow \o
    [k \in 1..(2 * ADDRESS_BITS) |->
        IF k % 2 = 1 THEN RomBit(rom, (k - 1) \div 2)
        ELSE 1 - RomBit(rom, (k - 1) \div 2)]

FaultDevice == MkRom(FAMILY_CODE, <<1, 0, 0, 0, 0, 0>>)

\* A call on the failing driver returned with world w and, if Ok, value val.
FaultyCall(name, arg, w, val) ==
    /\ call' = [name |-> name, arg |-> arg]
    /\ ops' = w.ops
    /\ ret' = Result(w, val)
    /\ bus' = [w.bus EXCEPT !.tape = <<>>, !.failIn = 0]
    /\ UNCHANGED <<wire, cursor, hist>>

FaultyResetCall ==
    /\ call = NoCall
    /\ \E at \in FaultPoints, tape \in {<<1>> \o AllLow, <<0, 0, 1>> \o AllHigh} :
          LET w == reset(FaultWorld(tape, at))
          IN  FaultyCall("reset", <<>>, w, <<w.val>>)

FaultyWriteBitCall ==
    /\ call = NoCall
    /\ \E at \in FaultPoints, high \in BOOLEAN :
          LET w == write_bit(FaultWorld(<<>>, at), high)
          IN  FaultyCall("write_bit", <<high>>, w, <<>>)

FaultyReadBitCall ==
    /\ call = NoCall
    /\ \E at \in FaultPoints, bit \in {0, 1} :
          LET w == read_bit(FaultWorld(<<bit>>, at))
          IN  FaultyCall("read_bit", <<bit>>, w, <<w.val>>)

FaultyWriteByteCall ==
    /\ call = NoCall
    /\ \E at \in FaultPoints, byte \in SliceBytes, parasite_mode \in BOOLEAN :
          LET w == write_byte(FaultWorld(<<>>, at), byte, parasite_mode)
          IN  FaultyCall("write_byte", <<byte, parasite_mode>>, w, <<>>)

FaultyReadByteCall ==
    /\ call = NoCall
    /\ \E at \in FaultPoints, byte \in SliceBytes :
          LET r == read_byte(FaultWorld(BitsOf(byte), at))
          IN  FaultyCall("read_byte", <<byte>>, r.w, <<r.byte>>)

FaultySelectCall ==
    /\ call = NoCall
    /\ \E at \in FaultPoints :
          LET w == select(FaultWorld(<<>>, at), FaultDevice)
          IN  FaultyCall("select", <<>>, w, <<>>)

\* The caller's DeviceSearch is an argument; what the call left in it is
\* returned with the result.
FaultySearchCall ==
    /\ call = NoCall
    /\ \E at \in FaultPoints :
          LET r == search_next(FaultWorld(SearchTape(FaultDevice), at),
                               DeviceSearch_new)
          IN  FaultyCall("search_next", <<>>, r.w, <<r.val, r.rom>>)

FaultyTransactionCall ==
    /\ call = NoCall
    /\ \E at \in FaultPoints :
          LET r == reset_select_write_read(
                       FaultWorld(<<1>> \o AllLow \o BitsOfBytes(<<1, 128>>, 1), at),
                       FaultDevice, <<ReadScratchpad>>, Zeros(2))
          IN  FaultyCall("reset_select_write_read", <<>>, r.w, <<r.dst>>)

NextFault ==
    \/ FaultyResetCall
    \/ FaultyWriteBitCall
    \/ FaultyReadBitCall
    \/ FaultyWriteByteCall
    \/ FaultyReadByteCall
    \/ FaultySelectCall
    \/ FaultySearchCall
    \/ FaultyTransactionCall
    \/ Idle

SpecFault == InitWire /\ [][NextFault]_vars

\* The pin operations of the call that the driver failed.
FailIdx == {i \in 1..Len(ops) : ops[i][2] = -1}

IsPinOp(i) == ops[i][1] \in {"set_low", "set_high", "is_high"}

\* C17: when a pin operation of a call fails, the call makes no further pin
\* operation and returns the driver's error (PortError); and no call, failed
\* or not, pulses a bus reset more than once.
C17_NoRetry ==
    call # NoCall =>
        /\ \A i \in FailIdx : \A j \in (i + 1)..Len(ops) : ~IsPinOp(j)
        /\ FailIdx # {} => (ret.err = "PortError" /\ ret.val = <<>>)
        /\ Cardinality(ResetPulses) <= 1

\* A transaction whose reset went through and found presence, and that the
\* driver failed in a read slot afterwards.
C17_Witness ==
    /\ call.name = "reset_select_write_read"
    /\ ResetEnds # {}
    /\ ReadSlots # <<>>
    /\ \E i \in FailIdx : i > 1 /\ ops[i] = <<"is_high", -1>> /\ i < Len(ops)
    /\ ret.err = "PortError"


---------------------------------------------------------------------------
(* Claims about split_temp *)

IsSplit == call.name = "split_temp"

\* The raw value read as a 16-bit two's-complement number.
Signed(r) == IF r >= 32768 THEN r - 65536 ELSE r

Abs(x) == IF x < 0 THEN -x ELSE x

\* test_temp_conv
TestVectors ==
    { <<2000, 125, 0>>, <<1360, 85, 0>>, <<401, 25, 625>>, <<162, 10, 1250>>,
      <<8, 0, 5000>>, <<0, 0, 0>>, <<65528, 0, -5000>>, <<65374, -10, -1250>>,
      <<65135, -25, -625>>, <<64656, -55, 0>> }

\* C18 as claimed: for every raw value r, split_temp(r) returns (integer,
\* fraction) with integer*10000 + fraction = s*625, s being r as a signed
\* 16-bit number, the fraction a multiple of 625 of absolute value at most
\* 9375; and the ten test vectors hold.
C18_SplitValue ==
    IsSplit =>
        /\ ret.err = ""
        /\ ret.val[1] * 10000 + ret.val[2] = Signed(call.arg[1]) * 625
        /\ ret.val[2] % 625 = 0
        /\ Abs(ret.val[2]) <= 9375
        /\ \A v \in TestVectors :
              call.arg[1] = v[1] => ret.val = <<v[2], v[3]>>

\* C19 as claimed: for every raw value r, the two parts never have opposite
\* signs; both are <= 0 when r >= 0x8000 and both >= 0 when r < 0x8000.
C19_SplitSign ==
    IsSplit =>
        /\ ret.err = ""
        /\ ~(ret.val[1] > 0 /\ ret.val[2] < 0)
        /\ ~(ret.val[1] < 0 /\ ret.val[2] > 0)
        /\ call.arg[1] >= 32768 => (ret.val[1] <= 0 /\ ret.val[2] <= 0)
        /\ call.arg[1] < 32768 => (ret.val[1] >= 0 /\ ret.val[2] >= 0)


---------------------------------------------------------------------------
(* Claims about Display and FromStr of Device *)

LowerHexChars == {LowerHex[d] : d \in 1..16}

\* 23 characters: lowercase hex pairs with a colon after each but the last.
IsCanonical(s) ==
    /\ Len(s) = 23
    /\ \A k \in 1..23 : IF k % 3 = 0 THEN s[k] = ":" ELSE s[k] \in LowerHexChars

\* The byte a lowercase pair of a canonical string denotes.
PairValue(s, i) ==
    LET digit(c) == CHOOSE d \in 0..15 : LowerHex[d + 1] = c
    IN  16 * digit(s[3 * i + 1]) + digit(s[3 * i + 2])

\* C20: formatting a Device gives the 23-character string of 8 lowercase
\* two-digit hex pairs of its bytes separated by colons; parsing that
\* string gives back the same 8 bytes; and formatting what was parsed from
\* such a string gives the identical string.
C20_AddressRoundTrip ==
    /\ call.name = "fmt" =>
          /\ IsCanonical(ret.val[1])
          /\ \A i \in ByteIdx : PairValue(ret.val[1], i) = call.arg[1][i]
          /\ from_str(ret.val[1]) = [err |-> "", val |-> <<call.arg[1]>>]
    /\ (call.name = "from_str" /\ IsCanonical(call.arg[1])) =>
          /\ ret.err = ""
          /\ ret.val[1] \in Address
          /\ \A i \in ByteIdx : ret.val[1][i] = PairValue(call.arg[1], i)
          /\ fmt(ret.val[1]) = call.arg[1]

\* A canonical string with padded and letter digits, parsed.
C20_Witness ==
    /\ call.name = "from_str"
    /\ IsCanonical(call.arg[1])
    /\ ret.err = ""
    /\ ret.val[1][0] \in 10..15
    /\ ret.val[1][7] > 15
    /\ fmt(ret.val[1]) = call.arg[1]


\* C21 as claimed: from_str returns an error for every string that is not
\* canonical: not exactly 23 characters long, a character other than ':'
\* at a separator position, or anything other than two lowercase hex digits
\* in a byte-pair position.
C21_StrictParse ==
    (call.name = "from_str" /\ ~IsCanonical(call.arg[1])) => ret.err # ""


---------------------------------------------------------------------------
(* Claims about DS18B20::new *)

\* C22: DS18B20::new(device) fails with FamilyCodeMismatch{expected: 0x28,
\* actual: address byte 0} exactly when address byte 0 is not 0x28;
\* otherwise it returns a sensor for that device at the maximum resolution,
\* whose wait time is 750 ms; and it performs no pin operation.
C22_NewChecksFamily ==
    call.name = "DS18B20::new" =>
        /\ ops = <<>>
        /\ call.arg[1][0] # 40 =>
              ret = [err |-> "FamilyCodeMismatch", val |-> <<>>,
                     expected |-> 40, actual |-> call.arg[1][0]]
        /\ call.arg[1][0] = 40 =>
              /\ ret.err = ""
              /\ ret.val[1].device = call.arg[1]
              /\ ret.val[1].resolution = "TC"
              /\ time_ms(ret.val[1].resolution) = 750
              /\ \A r \in MeasureResolutions :
                    time_ms(r) <= time_ms(ret.val[1].resolution)

\* new refused a device of another family.
C22_Witness ==
    /\ call.name = "DS18B20::new"
    /\ call.arg[1][0] = 16
    /\ ret.err = "FamilyCodeMismatch"
    /\ ret.actual = 16


---------------------------------------------------------------------------
(* Claims about the write slot *)

\* C23: write_bit(1) drives the line low, waits 10 us, releases it and waits
\* 55 us; write_bit(0) drives low, waits 65 us, releases and waits 5 us; so
\* every write slot, of write_bit and of every call that writes bits, lasts
\* between 65 and 70 us of delay, and the line is released when the slot
\* ends.
C23_WriteSlotTiming ==
    /\ call.name = "write_bit" =>
          /\ ret.err = ""
          /\ ops = <<<<"set_low", 0>>,
                     <<"delay_us", IF call.arg[1] THEN 10 ELSE 65>>,
                     <<"set_high", 0>>,
                     <<"delay_us", IF call.arg[1] THEN 55 ELSE 5>>>>
          /\ bus.out = "high"
    /\ \A k \in 1..Len(WriteSlots) :
          /\ ops[WriteSlots[k] + 3][1] = "delay_us"
          /\ ops[WriteSlots[k] + 1][2] + ops[WriteSlots[k] + 3][2] \in 65..70
          /\ ops[WriteSlots[k] + 2] = <<"set_high", 0>>

\* A 0 written as a bit of its own.
C23_Witness ==
    /\ call.name = "write_bit"
    /\ call.arg[1] = FALSE
    /\ Len(WriteSlots) = 1
    /\ ops[2] = <<"delay_us", 65>>
    /\ ops[4] = <<"delay_us", 5>>
    /\ bus.out = "high"


---------------------------------------------------------------------------
(* One DeviceSearch used for search_next calls on a bus that misbehaves:    *)
(* at each call the slaves answer as they should, or do not answer the      *)
(* reset, or one bit pair is read differently from what they put on the     *)
(* line, or the driver fails.  hist.entry is the cursor the last call began *)
(* with.                                                                    *)

MaxCursorCalls == 2

CursorDeviceSets ==
    { {MkRom(40, <<1, 0, 0, 0, 0, 0>>), MkRom(40, <<2, 0, 0, 0, 0, 0>>)},
      {MkRom(40, <<1, 0, 0, 0, 0, 0>>), MkRom(16, <<1, 0, 0, 0, 0, 0>>),
       MkRom(16, <<2, 0, 0, 0, 0, 0>>)},
      {MkRom(16, <<1, 0, 0, 0, 0, 0>>)} }

InitCursor ==
    /\ \E devices \in CursorDeviceSets : bus = NewBus(devices, {})
    /\ cursor = DeviceSearch_new
    /\ hist = [ncalls |-> 0, entry |-> DeviceSearch_new]
    /\ wire = [parasite_mode |-> FALSE]
    /\ call = NoCall
    /\ ops = <<>>
    /\ ret = [err |-> "", val |-> <<>>]

\* search_next returned r; env tells what the bus did during the call.
CursorCall(env, r) ==
    /\ call' = [name |-> "search_next", arg |-> env]
    /\ cursor' = r.rom
    /\ ops' = r.w.ops
    /\ ret' = Result(r.w, r.val)
    /\ bus' = [r.w.bus EXCEPT !.tape = <<>>, !.failIn = 0]
    /\ hist' = [ncalls |-> hist.ncalls + 1, entry |-> cursor]
    /\ UNCHANGED wire

\* The reads of a reset on a sane line with presence: one poll, the samples.
RESET_READS == 1 + PRESENCE_SAMPLES

\* The bit positions where a pair is misread: around the position the call
\* resumes at, and near the end of the walk.
GlitchBits(rom) ==
    IF last_discrepancy(rom) = None THEN {0, 1, ADDRESS_BITS - 2}
    ELSE { last_discrepancy(rom)[1] - 1, last_discrepancy(rom)[1],
           last_discrepancy(rom)[1] + 1, ADDRESS_BITS - 2 } \cap 0..(ADDRESS_BITS - 1)

Pairs == {<<0, 0>>, <<0, 1>>, <<1, 0>>, <<1, 1>>}

\* The reads up to bit k see what the slaves answer, then the misread pair.
GlitchTape(k, pair) == [i \in 1..(RESET_READS + 2 * k) |-> AS_DRIVEN] \o pair

PlainSearchCall ==
    /\ call = NoCall
    /\ hist.ncalls < MaxCursorCalls
    /\ CursorCall(<<"plain">>, search_next(World(bus, wire.parasite_mode), cursor))

NoPresenceSearchCall ==
    /\ call = NoCall
    /\ hist.ncalls < MaxCursorCalls
    /\ CursorCall(<<"no presence">>,
                  search_next(World([bus EXCEPT !.tape = <<1>> \o AllHigh],
                                    wire.parasite_mode), cursor))

GlitchedSearchCall ==
    /\ call = NoCall
    /\ hist.ncalls < MaxCursorCalls
    /\ \E k \in GlitchBits(cursor), pair \in Pairs :
          CursorCall(<<"glitch", k, pair>>,
                     search_next(World([bus EXCEPT !.tape = GlitchTape(k, pair)],
                                       wire.parasite_mode), cursor))

FailedSearchCall ==
    /\ call = NoCall
    /\ hist.ncalls < MaxCursorCalls
    /\ \E at \in {5, 40, 200, 500} :
          CursorCall(<<"driver error", at>>,
                     search_next(World([bus EXCEPT !.failIn = at],
                                       wire.parasite_mode), cursor))

NextCursor ==
    \/ PlainSearchCall
    \/ NoPresenceSearchCall
    \/ GlitchedSearchCall
    \/ FailedSearchCall
    \/ Idle

SpecCursor == InitCursor /\ [][NextCursor]_vars


---------------------------------------------------------------------------
(* Claims about the cursor *)

\* The bit positions set in an 8-byte bitmap.
SetBits(array) == {i \in 0..(ADDRESS_BITS - 1) : RomBit(array, i) = 1}

Highest(S) == CHOOSE i \in S : \A j \in S : j <= i

\* The last call was a search call that completed its walk.
Completed ==
    /\ call.name = "search_next"
    /\ ret.err = ""
    /\ ret.val # None

\* The bit the call wrote at position i of its walk: the slots after the
\* eight of the command byte.
WalkBit(i) == SlotBit(ops, WriteSlots[8 + i + 1])

\* C24: a search call that completes its walk clears the discrepancy bit
\* that was the highest one set on entry, sets the address bit there and
\* writes 1 there whatever pair it read; below that position it leaves the
\* address bits as they were and writes them; and every other discrepancy
\* bit set on entry is still set.
C24_ResumeOneBranch ==
    (Completed /\ SetBits(hist.entry.discrepancies) # {}) =>
        /\ Len(WriteSlots) = 8 + ADDRESS_BITS
        /\ ~(Highest(SetBits(hist.entry.discrepancies))
                \in SetBits(cursor.discrepancies))
        /\ Highest(SetBits(hist.entry.discrepancies)) \in SetBits(cursor.address)
        /\ WalkBit(Highest(SetBits(hist.entry.discrepancies))) = 1
        /\ \A i \in 0..(Highest(SetBits(hist.entry.discrepancies)) - 1) :
              /\ RomBit(cursor.address, i) = RomBit(hist.entry.address, i)
              /\ WalkBit(i) = RomBit(hist.entry.address, i)
        /\ SetBits(hist.entry.discrepancies)
              \ {Highest(SetBits(hist.entry.discrepancies))}
                \subseteq SetBits(cursor.discrepancies)

\* A call that began with two open branches, read both bits set at the
\* position it resumed at, and completed.
C24_Witness ==
    /\ Completed
    /\ Cardinality(SetBits(hist.entry.discrepancies)) >= 2
    /\ call.arg = <<"glitch", Highest(SetBits(hist.entry.discrepancies)), <<1, 1>>>>
    /\ cursor # hist.entry


\* The last call was a search call on a cursor not at its end that
\* returned no device and no error.
Aborted ==
    /\ call.name = "search_next"
    /\ hist.entry.state # "End"
    /\ ret.err = ""
    /\ ret.val = None

\* C25: a search call on a cursor not in phase End that returns Ok(None)
\* because the reset saw no presence pulse or because a pair was read as
\* both set leaves the address bytes and the discrepancy bitmap as they
\* were before the call.
C25_AbortLeavesCursor ==
    (Aborted /\ call.arg[1] \in {"no presence", "glitch"}) =>
        /\ cursor.address = hist.entry.address
        /\ cursor.discrepancies = hist.entry.discrepancies

\* C26: in every state reached from a new DeviceSearch by search calls,
\* aborted and failed ones included, every bit set in the discrepancy
\* bitmap has its address bit 0, and phase End has an empty bitmap.
C26_CursorInvariant ==
    /\ SetBits(cursor.discrepancies) \cap SetBits(cursor.address) = {}
    /\ cursor.state = "End" => SetBits(cursor.discrepancies) = {}

\* A second call that resumed a branch and then failed in the driver,
\* with a branch still open.
C26_Witness ==
    /\ call = [name |-> "search_next", arg |-> <<"driver error", 200>>]
    /\ ret.err # ""
    /\ hist.ncalls = 2
    /\ SetBits(cursor.discrepancies) # {}
    /\ SetBits(cursor.address) # SetBits(hist.entry.address)
    /\ cursor.discrepancies # hist.entry.discrepancies

=============================================================================
